---------------------------- MODULE Spec2Model ----------------------------
(***************************************************************************)
(* Model of src/guassian_beam.py: the knife-edge beam model                *)
(* guassian_beam_erfc and the curve-fit wrapper fit_data.                  *)
(*                                                                         *)
(* Numbers.  A float is modelled as an exact value n/d * sqrt(2)^e (a      *)
(* record with k = "fin"), or one of the IEEE-754 specials "inf", "ninf",  *)
(* "nan".  Zero carries its IEEE sign (neg).  The extra kind "err" stands  *)
(* for a raised Python exception; every operation propagates it, the way   *)
(* a raising sub-expression aborts the enclosing expression.               *)
(* scipy.special.erfc is a table with six decimals at the arguments        *)
(* k/sqrt(2), k an integer, which are the only ones the inputs below       *)
(* produce; beyond |k| = 5 it saturates at 0 and 2 as fixed precision      *)
(* does.                                                                   *)
(***************************************************************************)
EXTENDS Integers, Sequences, FiniteSets, TLC

\* ------------------------------------------------------------ bounds
\* Positions range over -MaxX..MaxX.
MaxX == 2
\* Longest position sequence handed to the beam model (besides ExampleX).
MaxLen == 2
\* Longest x_data / y_data handed to fit_data.
MaxData == 5
\* Cap on solver invocations per call (reached only by a retrying fit).
MaxSolverCalls == 3

\* ------------------------------------------------------------ numbers
Abs(i) == IF i < 0 THEN -i ELSE i

Sgn(i) == IF i < 0 THEN -1 ELSE IF i > 0 THEN 1 ELSE 0

RECURSIVE GCD(_, _)
GCD(a, b) == IF b = 0 THEN a ELSE GCD(b, a % b)

LCM(a, b) == (a \div GCD(a, b)) * b

\* The finite value n/d * sqrt(2)^e in lowest terms; zero is +0 or -0.
Fin(n, d, e) ==
    IF n = 0
    THEN [k |-> "fin", n |-> 0, d |-> 1, e |-> 0, neg |-> FALSE]
    ELSE LET g == GCD(Abs(n), Abs(d))
         IN  [k |-> "fin", n |-> (Sgn(d) * n) \div g, d |-> Abs(d) \div g,
              e |-> e, neg |-> FALSE]

Rat(n, d) == Fin(n, d, 0)

Zero(neg) == [k |-> "fin", n |-> 0, d |-> 1, e |-> 0, neg |-> neg]

Special(kind) == [k |-> kind, n |-> 0, d |-> 1, e |-> 0, neg |-> FALSE]

Inf == Special("inf")

NegInf == Special("ninf")

NaN == Special("nan")

ZeroDivisionError == Special("err")

IsFin(a) == a.k = "fin"

IsZero(a) == a.k = "fin" /\ a.n = 0

IsErr(a) == a.k = "err"

\* TRUE for negative values, -inf and -0.
SignBit(a) ==
    CASE a.k = "fin" -> IF a.n = 0 THEN a.neg ELSE a.n < 0
      [] a.k = "ninf" -> TRUE
      [] OTHER -> FALSE

SignedZero(neg) == Zero(neg)

SignedInf(neg) == IF neg THEN NegInf ELSE Inf

\* np.sqrt(2)
NpSqrt2 == Fin(1, 1, 1)

\* IEEE negation.
NpNeg(a) ==
    CASE a.k = "fin" -> IF a.n = 0 THEN Zero(~a.neg) ELSE Fin(-a.n, a.d, a.e)
      [] a.k = "inf" -> NegInf
      [] a.k = "ninf" -> Inf
      [] OTHER -> a

\* IEEE addition (numpy / pandas elementwise +).  Finite operands carry the
\* same power of sqrt(2).
NpAdd(a, b) ==
    CASE IsErr(a) -> a
      [] IsErr(b) -> b
      [] a.k = "nan" \/ b.k = "nan" -> NaN
      [] a.k = "inf" -> IF b.k = "ninf" THEN NaN ELSE Inf
      [] a.k = "ninf" -> IF b.k = "inf" THEN NaN ELSE NegInf
      [] b.k \in {"inf", "ninf"} -> b
      [] IsZero(a) /\ IsZero(b) -> Zero(a.neg /\ b.neg)
      [] IsZero(a) -> b
      [] IsZero(b) -> a
      [] a.e = b.e ->
            LET l == LCM(a.d, b.d)
            IN  Fin(a.n * (l \div a.d) + b.n * (l \div b.d), l, a.e)

\* IEEE subtraction (numpy / pandas elementwise -).
NpSub(a, b) == NpAdd(a, IF IsErr(b) THEN b ELSE NpNeg(b))

\* IEEE multiplication (numpy / pandas elementwise *).
NpMul(a, b) ==
    CASE IsErr(a) -> a
      [] IsErr(b) -> b
      [] a.k = "nan" \/ b.k = "nan" -> NaN
      [] ~IsFin(a) \/ ~IsFin(b) ->
            IF IsZero(a) \/ IsZero(b) THEN NaN
            ELSE SignedInf(SignBit(a) # SignBit(b))
      [] IsZero(a) \/ IsZero(b) -> SignedZero(SignBit(a) # SignBit(b))
      [] OTHER ->
            LET g1 == GCD(Abs(a.n), b.d)
                g2 == GCD(Abs(b.n), a.d)
            IN  Fin((a.n \div g1) * (b.n \div g2),
                    (a.d \div g2) * (b.d \div g1), a.e + b.e)

\* A division that raises on a zero divisor (the mutation of NpDiv).
NpDivRaising(a, b) ==
    CASE IsErr(a) -> a
      [] IsErr(b) -> b
      [] IsZero(b) -> ZeroDivisionError
      [] a.k = "nan" \/ b.k = "nan" -> NaN
      [] ~IsFin(a) -> IF ~IsFin(b) THEN NaN
                      ELSE SignedInf(SignBit(a) # SignBit(b))
      [] ~IsFin(b) -> SignedZero(SignBit(a) # SignBit(b))
      [] IsZero(a) -> SignedZero(SignBit(a) # SignBit(b))
      [] OTHER -> Fin(a.n * b.d, a.d * b.n, a.e - b.e)

\* IEEE division as numpy scalars and pandas Series perform it: a zero
\* divisor raises nothing and yields nan (0/0) or a signed infinity.
NpDiv(a, b) ==
    CASE IsErr(a) -> a
      [] IsErr(b) -> b
      [] a.k = "nan" \/ b.k = "nan" -> NaN
      [] ~IsFin(a) -> IF ~IsFin(b) THEN NaN
                      ELSE SignedInf(SignBit(a) # SignBit(b))
      [] ~IsFin(b) -> SignedZero(SignBit(a) # SignBit(b))
      [] IsZero(b) -> IF IsZero(a) THEN NaN
                      ELSE SignedInf(SignBit(a) # SignBit(b))
      [] IsZero(a) -> SignedZero(SignBit(a) # SignBit(b))
      [] OTHER -> Fin(a.n * b.d, a.d * b.n, a.e - b.e)

\* Division of Python floats: a zero divisor raises ZeroDivisionError.
PyDiv(a, b) ==
    IF IsZero(b) /\ ~IsErr(a) THEN ZeroDivisionError ELSE NpDiv(a, b)

\* erfc(k / sqrt(2)) in millionths, k an integer.
RECURSIVE ErfcMicro(_)
ErfcMicro(k) ==
    IF k < 0 THEN 2000000 - ErfcMicro(-k)
    ELSE CASE k = 0 -> 1000000
           [] k = 1 -> 317311
           [] k = 2 -> 45500
           [] k = 3 -> 2700
           [] k = 4 -> 63
           [] k = 5 -> 1
           [] OTHER -> 0

\* scipy.special.erf in place of erfc (a mutation): erf = 1 - erfc.
erf(y) ==
    CASE IsErr(y) -> y
      [] y.k = "nan" -> NaN
      [] y.k = "inf" -> Rat(1, 1)
      [] y.k = "ninf" -> Rat(-1, 1)
      [] IsZero(y) -> Rat(0, 1)
      [] y.e = 1 /\ (2 * y.n) % y.d = 0 ->
            Rat(1000000 - ErfcMicro((2 * y.n) \div y.d), 1000000)

\* scipy.special.erfc: erfc(nan) = nan, erfc(inf) = 0, erfc(-inf) = 2,
\* erfc(0) = 1.  A finite nonzero argument is q * sqrt(2) with 2q an integer.
erfc(y) ==
    CASE IsErr(y) -> y
      [] y.k = "nan" -> NaN
      [] y.k = "inf" -> Rat(0, 1)
      [] y.k = "ninf" -> Rat(2, 1)
      [] IsZero(y) -> Rat(1, 1)
      [] y.e = 1 /\ (2 * y.n) % y.d = 0 ->
            Rat(ErfcMicro((2 * y.n) \div y.d), 1000000)

\* Numeric equality (+0 = -0; nan equals nothing) and order of finite
\* values with the same power of sqrt(2).
NumEq(a, b) == IsFin(a) /\ IsFin(b) /\ a.n = b.n /\ a.d = b.d /\ a.e = b.e

NumLeq(a, b) ==
    /\ IsFin(a) /\ IsFin(b)
    /\ \/ IsZero(a) /\ b.n >= 0
       \/ IsZero(b) /\ a.n <= 0
       \/ /\ a.e = b.e
          /\ LET l == LCM(a.d, b.d)
             IN  a.n * (l \div a.d) <= b.n * (l \div b.d)

NumLess(a, b) == NumLeq(a, b) /\ ~NumEq(a, b)

\* ------------------------------------------------------------ beam model
\* What a call produced: a value, or a raised exception.
Returned(v) == [status |-> "returned", value |-> v, error |-> "none"]

Raised(e) == [status |-> "raised", value |-> <<>>, error |-> e]

NoResult == [status |-> "none", value |-> <<>>, error |-> "none"]

\* The literal 2 of `p_max/2`.
Two == Rat(2, 1)

\* guassian_beam_erfc with the halving dropped (a mutation).
guassian_beam_erfc_nohalf(x, p_offset, p_max, x_half, w) ==
    LET scale == NpDiv(w, NpSqrt2)
        y == [i \in 1..Len(x) |-> NpDiv(NpSub(x[i], x_half), scale)]
        out == [i \in 1..Len(x) |-> NpAdd(p_offset, NpMul(p_max, erfc(y[i])))]
    IN  Returned(out)

\* guassian_beam_erfc with the sign of the argument flipped (a mutation).
guassian_beam_erfc_flipped(x, p_offset, p_max, x_half, w) ==
    LET scale == NpDiv(w, NpSqrt2)
        y == [i \in 1..Len(x) |-> NpDiv(NpSub(x_half, x[i]), scale)]
        half == PyDiv(p_max, Two)
        out == [i \in 1..Len(x) |-> NpAdd(p_offset, NpMul(half, erfc(y[i])))]
    IN  Returned(out)

\* def guassian_beam_erfc(x, p_offset, p_max, x_half, w):
\*     y = (x - x_half)/(w/np.sqrt(2))
\*     return p_offset + ((p_max/2) * special.erfc(y))
\* Elementwise over the Series x; an exception raised by any sub-expression
\* leaves the function with no value.
guassian_beam_erfc(x, p_offset, p_max, x_half, w) ==
    LET scale == NpDiv(w, NpSqrt2)
        y == [i \in 1..Len(x) |-> NpDiv(NpSub(x[i], x_half), scale)]
        half == PyDiv(p_max, Two)
        out == [i \in 1..Len(x) |-> NpAdd(p_offset, NpMul(half, erfc(y[i])))]
    IN  IF IsErr(scale) \/ IsErr(half) \/ \E i \in 1..Len(x) : IsErr(out[i])
        THEN Raised("ZeroDivisionError")
        ELSE Returned(out)

\* ------------------------------------------------------------ inputs
RECURSIVE SeqsUpTo(_, _)
SeqsUpTo(S, n) ==
    IF n = 0 THEN {<<>>}
    ELSE LET shorter == SeqsUpTo(S, n - 1)
         IN  shorter \cup {Append(s, v) : s \in {t \in shorter : Len(t) = n - 1},
                                          v \in S}

XVals == {Rat(i, 1) : i \in -MaxX..MaxX}

\* The positions of the documented example.
ExampleX == <<Rat(-2, 1), Rat(-1, 1), Rat(0, 1), Rat(1, 1), Rat(2, 1)>>

XSeqs == SeqsUpTo(XVals, MaxLen) \cup {ExampleX}

POffsetVals == {Rat(0, 1), Rat(1, 10)}

PMaxVals == {Rat(-2, 1), Rat(0, 1), Rat(1, 1), Rat(2, 1)}

XHalfVals == {Rat(-1, 1), Rat(0, 1), Rat(1, 1)}

\* Beam radii, both signs, and both zeros.
WVals == {Rat(-2, 1), Rat(-1, 1), Zero(TRUE), Zero(FALSE), Rat(1, 1), Rat(2, 1)}

\* ------------------------------------------------------------ curve fit
\* The callables handed to fit_data, and the number of parameters each takes
\* after x.
ModelFunctions == {"guassian_beam_erfc"}

NParams(f) == 4

\* x_data: the first l knife positions -2, -1, 0, ...
Ramp(l) == [i \in 1..l |-> Rat(i - 3, 1)]

\* y_data: l noise-free powers of a beam with p_offset = 0.1, p_max = 2,
\* x_half = 0, w = 1.
BeamSamples(l) ==
    guassian_beam_erfc(Ramp(l), Rat(1, 10), Rat(2, 1), Rat(0, 1), Rat(1, 1)).value

XDataVals == {Ramp(l) : l \in 0..MaxData}

YDataVals == {BeamSamples(l) : l \in 0..MaxData}

\* Initial guesses of 3, 4 and 5 entries.
GuessVals ==
    { <<Rat(0, 1), Rat(2, 1), Rat(0, 1)>>,
      <<Rat(0, 1), Rat(1, 1), Rat(1, 1), Rat(1, 1)>>,
      <<Rat(1, 10), Rat(2, 1), Rat(0, 1), Rat(2, 1)>>,
      <<Rat(0, 1), Rat(0, 1), Rat(0, 1), Rat(1, 1)>>,
      <<Rat(0, 1), Rat(2, 1), Rat(0, 1), Rat(1, 1), Rat(1, 1)>> }

Min(a, b) == IF a <= b THEN a ELSE b

\* The arguments of a curve_fit call.
Args(f, xdata, ydata, p0) == [f |-> f, xdata |-> xdata, ydata |-> ydata, p0 |-> p0]

NoArgs == Args("none", <<>>, <<>>, <<>>)

\* fit_data cutting both series to the shorter one before the call (a
\* mutation).
CurveFitArgsTruncated(model_function, x_data, y_data, initial_guess) ==
    LET l == Min(Len(x_data), Len(y_data))
    IN  Args(model_function, SubSeq(x_data, 1, l), SubSeq(y_data, 1, l),
             initial_guess)

\* The call optimize.curve_fit(model_function, x_data, y_data,
\* p0=initial_guess): fit_data hands its own arguments on unchanged.
CurveFitArgs(model_function, x_data, y_data, initial_guess) ==
    Args(model_function, x_data, y_data, initial_guess)

\* numpy broadcasting of the residual f(xdata, *p) - ydata, f(xdata) being a
\* Series as long as xdata and ydata an ndarray: the length of the residual,
\* or -1 when the operation raises ValueError.  A one-element ydata is
\* stretched; a one-element Series cannot hold a longer result.
ResidualSize(lx, ly) ==
    IF lx = ly \/ ly = 1 THEN lx ELSE -1

\* The exception scipy.optimize.curve_fit (p0 given, no bounds, so method
\* 'lm') raises before iterating, or "none": in the order of its checks,
\* empty ydata; more parameters than data points (a one-element ydata is let
\* through for broadcasting); the first evaluation f(xdata, *p0) against the
\* callable's signature; the residual's shape; leastsq's N > M.
CurveFitInputError(a) ==
    LET n == Len(a.p0)
        m == ResidualSize(Len(a.xdata), Len(a.ydata))
    IN  CASE Len(a.ydata) = 0 -> "ValueError: ydata must not be empty"
          [] Len(a.ydata) # 1 /\ n > Len(a.ydata) ->
                "TypeError: The number of func parameters must not exceed the number of data points"
          [] n # NParams(a.f) ->
                "TypeError: wrong number of positional arguments"
          [] m = -1 -> "ValueError: operands could not be broadcast together"
          [] n > m -> "TypeError: Improper input: N must not exceed M"
          [] OTHER -> "none"

\* numpy arrays: a vector and a square matrix.
Vector(v) == [ndim |-> 1, shape |-> <<Len(v)>>, data |-> v]

Matrix(n, v, o) ==
    [ndim |-> 2, shape |-> <<n, n>>,
     data |-> [i \in 1..n |-> [j \in 1..n |-> IF i = j THEN v ELSE o]]]

\* The estimates curve_fit may return for p0: one value per entry of p0.
PoptVals(p0) ==
    {Vector(p0), Vector([i \in 1..Len(p0) |-> NpAdd(p0[i], Rat(1, 10))])}

\* pcov as curve_fit returns it (absolute_sigma=False): filled with inf when
\* leastsq found the Jacobian singular or when there are no more residuals
\* than parameters, a finite matrix otherwise.
CurveFitCovariance(n, m, fullRank) ==
    IF fullRank /\ m > n
    THEN Matrix(n, Rat(1, 100), Rat(0, 1))
    ELSE Matrix(n, Inf, Inf)

\* fit_data returning the pair in the other order (a mutation).
FitReturnValueSwapped(param, covariance) == <<covariance, param>>

\* fit_data replacing non-finite covariance entries by zeros (a mutation).
FitReturnValueSanitised(param, covariance) ==
    <<param,
      IF covariance.data[1][1] = Inf
      THEN Matrix(covariance.shape[1], Rat(0, 1), Rat(0, 1))
      ELSE covariance>>

\* return [param, covariance]
FitReturnValue(param, covariance) == <<param, covariance>>

VARIABLES pc, x, p_offset, p_max, x_half, w, beamOut,
          model_function, x_data, y_data, initial_guess,
          solverCalls, solverArgs, jacobianFullRank, solverOut, fitOut

beamVars == <<x, p_offset, p_max, x_half, w, beamOut>>

fitArgs == <<model_function, x_data, y_data, initial_guess>>

solverVars == <<solverCalls, solverArgs, jacobianFullRank, solverOut>>

vars == <<pc, beamVars, fitArgs, solverVars, fitOut>>

Init ==
    /\ pc = "idle"
    /\ x = <<>>
    /\ p_offset = Rat(0, 1)
    /\ p_max = Rat(0, 1)
    /\ x_half = Rat(0, 1)
    /\ w = Rat(1, 1)
    /\ beamOut = NoResult
    /\ model_function = "none"
    /\ x_data = <<>>
    /\ y_data = <<>>
    /\ initial_guess = <<>>
    /\ solverCalls = 0
    /\ solverArgs = NoArgs
    /\ jacobianFullRank = TRUE
    /\ solverOut = NoResult
    /\ fitOut = NoResult

\* A caller evaluates the beam model.
BeamCall ==
    /\ pc = "idle"
    /\ \E xs \in XSeqs, po \in POffsetVals, pm \in PMaxVals,
          xh \in XHalfVals, ww \in WVals :
          /\ x' = xs
          /\ p_offset' = po
          /\ p_max' = pm
          /\ x_half' = xh
          /\ w' = ww
          /\ beamOut' = guassian_beam_erfc(xs, po, pm, xh, ww)
    /\ pc' = "beam_done"
    /\ UNCHANGED <<fitArgs, solverVars, fitOut>>

\* A caller enters fit_data, which calls curve_fit.
FitCall ==
    /\ pc = "idle"
    /\ \E f \in ModelFunctions, xd \in XDataVals, yd \in YDataVals,
          g \in GuessVals :
          /\ model_function' = f
          /\ x_data' = xd
          /\ y_data' = yd
          /\ initial_guess' = g
          /\ solverArgs' = CurveFitArgs(f, xd, yd, g)
    /\ solverCalls' = solverCalls + 1
    /\ pc' = "in_solver"
    /\ UNCHANGED <<beamVars, jacobianFullRank, solverOut, fitOut>>

\* curve_fit rejects its input.
SolverReject ==
    /\ pc = "in_solver"
    /\ CurveFitInputError(solverArgs) # "none"
    /\ solverOut' = Raised(CurveFitInputError(solverArgs))
    /\ pc' = "solver_raised"
    /\ UNCHANGED <<beamVars, fitArgs, solverCalls, solverArgs,
                   jacobianFullRank, fitOut>>

\* leastsq ends with ier outside 1..4.
SolverDiverge ==
    /\ pc = "in_solver"
    /\ CurveFitInputError(solverArgs) = "none"
    /\ solverOut' = Raised("RuntimeError: Optimal parameters not found")
    /\ pc' = "solver_raised"
    /\ UNCHANGED <<beamVars, fitArgs, solverCalls, solverArgs,
                   jacobianFullRank, fitOut>>

\* leastsq converges; curve_fit returns (popt, pcov).
SolverConverge ==
    /\ pc = "in_solver"
    /\ CurveFitInputError(solverArgs) = "none"
    /\ \E popt \in PoptVals(solverArgs.p0), fullRank \in BOOLEAN :
          /\ jacobianFullRank' = fullRank
          /\ solverOut' =
                Returned(<<popt,
                           CurveFitCovariance(Len(solverArgs.p0),
                               ResidualSize(Len(solverArgs.xdata),
                                            Len(solverArgs.ydata)),
                               fullRank)>>)
    /\ pc' = "solver_returned"
    /\ UNCHANGED <<beamVars, fitArgs, solverCalls, solverArgs, fitOut>>

\* fit_data catching the exception and calling the solver again from another
\* guess (a mutation).
FitRetry ==
    /\ pc = "solver_raised"
    /\ IF solverCalls < MaxSolverCalls
       THEN /\ solverCalls' = solverCalls + 1
            /\ solverArgs' =
                  [solverArgs EXCEPT
                     !.p0 = [i \in 1..NParams(model_function) |-> Rat(1, 1)]]
            /\ pc' = "in_solver"
            /\ UNCHANGED <<beamVars, fitArgs, jacobianFullRank, solverOut,
                           fitOut>>
       ELSE /\ fitOut' = Raised(solverOut.error)
            /\ pc' = "fit_done"
            /\ UNCHANGED <<beamVars, fitArgs, solverVars>>

\* fit_data catching the exception and raising one of its own (a mutation).
FitWrap ==
    /\ pc = "solver_raised"
    /\ fitOut' = Raised("FitError")
    /\ pc' = "fit_done"
    /\ UNCHANGED <<beamVars, fitArgs, solverVars>>

\* The call on line 42 stands in no try block: what curve_fit raises leaves
\* fit_data as it is.
FitPropagate ==
    /\ pc = "solver_raised"
    /\ fitOut' = Raised(solverOut.error)
    /\ pc' = "fit_done"
    /\ UNCHANGED <<beamVars, fitArgs, solverVars>>

\* param, covariance = optimize.curve_fit(...); return [param, covariance]
FitReturn ==
    /\ pc = "solver_returned"
    /\ fitOut' = Returned(FitReturnValue(solverOut.value[1], solverOut.value[2]))
    /\ pc' = "fit_done"
    /\ UNCHANGED <<beamVars, fitArgs, solverVars>>

\* The caller is done with the outcome; calls are independent.
Reset ==
    /\ pc \in {"beam_done", "fit_done"}
    /\ pc' = "idle"
    /\ x' = <<>>
    /\ p_offset' = Rat(0, 1)
    /\ p_max' = Rat(0, 1)
    /\ x_half' = Rat(0, 1)
    /\ w' = Rat(1, 1)
    /\ beamOut' = NoResult
    /\ model_function' = "none"
    /\ x_data' = <<>>
    /\ y_data' = <<>>
    /\ initial_guess' = <<>>
    /\ solverCalls' = 0
    /\ solverArgs' = NoArgs
    /\ jacobianFullRank' = TRUE
    /\ solverOut' = NoResult
    /\ fitOut' = NoResult

Next ==
    \/ BeamCall
    \/ FitCall
    \/ SolverReject
    \/ SolverDiverge
    \/ SolverConverge
    \/ FitPropagate
    \/ FitReturn
    \/ Reset

Spec == Init /\ [][Next]_vars

\* ------------------------------------------------------------ claims
BeamDone == pc = "beam_done"

FitDone == pc = "fit_done"

\* The entry the contract states for position xi, by another route than the
\* code's: with q = (xi - x_half)/w, the argument of erfc is q*sqrt(2), and
\* the entry is p_offset + p_max * (erfc/2), the table read directly.
ContractEntry(xi) ==
    LET q == NpDiv(NpSub(xi, x_half), w)
    IN  NpAdd(p_offset,
              NpMul(p_max, Rat(ErfcMicro((2 * q.n) \div q.d), 2000000)))

\* C1: for w != 0 the beam model returns a sequence as long as x, in the
\* order of x, whose i-th entry is p_offset + (p_max/2) * erfc((x_i -
\* x_half)/(w/sqrt(2))); equal positions give equal entries.
C1_BeamElementwise ==
    (BeamDone /\ ~IsZero(w)) =>
        /\ beamOut.status = "returned"
        /\ Len(beamOut.value) = Len(x)
        /\ \A i \in 1..Len(x) : NumEq(beamOut.value[i], ContractEntry(x[i]))
        /\ \A i, j \in 1..Len(x) :
              x[i] = x[j] => beamOut.value[i] = beamOut.value[j]

C1_Witness ==
    /\ BeamDone /\ ~IsZero(w) /\ ~IsZero(p_max)
    /\ Len(x) = 2 /\ x[1] # x[2]
    /\ beamOut.status = "returned"
    /\ ~NumEq(beamOut.value[1], beamOut.value[2])

\* C2 as stated: with w == 0 the beam model raises and returns no sequence.
C2_ZeroWidthRaises ==
    (BeamDone /\ IsZero(w)) => beamOut.status = "raised"

\* C2 amended: with w == 0 the beam model raises nothing; it returns a
\* sequence as long as x whose entry is NaN where x_i = x_half and one of
\* the two limits p_offset, p_offset + p_max elsewhere.
C2_ZeroWidthReturnsLimits ==
    (BeamDone /\ IsZero(w)) =>
        /\ beamOut.status = "returned"
        /\ Len(beamOut.value) = Len(x)
        /\ \A i \in 1..Len(x) :
              IF NumEq(x[i], x_half)
              THEN beamOut.value[i] = NaN
              ELSE \/ NumEq(beamOut.value[i], p_offset)
                   \/ NumEq(beamOut.value[i], NpAdd(p_offset, p_max))

C2_Witness ==
    /\ BeamDone /\ IsZero(w) /\ Len(x) = 2
    /\ NumEq(x[1], x_half) /\ NumLess(x_half, x[2])
    /\ beamOut.status = "returned"
    /\ beamOut.value[1] = NaN
    /\ NumEq(beamOut.value[2], p_offset)

Positive(a) == IsFin(a) /\ a.n > 0

\* The documented example call.
IsExample ==
    /\ x = ExampleX
    /\ p_offset = Rat(1, 10) /\ p_max = Rat(2, 1)
    /\ x_half = Rat(0, 1) /\ w = Rat(1, 1)

NonIncreasing(v) ==
    \A i, j \in 1..Len(x) : NumLess(x[i], x[j]) => NumLeq(v[j], v[i])

\* C3 as stated: for p_max > 0 and any w != 0 the output does not increase
\* with the position, and decreases strictly on the example.
C3_MonotoneAnyWidth ==
    (BeamDone /\ Positive(p_max) /\ ~IsZero(w)) =>
        /\ NonIncreasing(beamOut.value)
        /\ IsExample =>
              \A i \in 1..(Len(x) - 1) :
                 NumLess(beamOut.value[i + 1], beamOut.value[i])

\* C3 amended: for p_max > 0 and w > 0 the output does not increase with the
\* position, and decreases strictly on the example.
C3_MonotonePositiveWidth ==
    (BeamDone /\ Positive(p_max) /\ Positive(w)) =>
        /\ NonIncreasing(beamOut.value)
        /\ IsExample =>
              \A i \in 1..(Len(x) - 1) :
                 NumLess(beamOut.value[i + 1], beamOut.value[i])

C3_Witness ==
    /\ BeamDone /\ IsExample
    /\ NumEq(beamOut.value[1], Rat(2099937, 1000000))
    /\ NumEq(beamOut.value[3], Rat(11, 10))
    /\ NumEq(beamOut.value[5], Rat(100063, 1000000))

\* C4: for w != 0 an entry at x_i = x_half equals p_offset + p_max/2.
C4_HalfPowerAtXHalf ==
    (BeamDone /\ ~IsZero(w)) =>
        \A i \in 1..Len(x) :
           NumEq(x[i], x_half) =>
              NumEq(beamOut.value[i], NpAdd(p_offset, NpMul(p_max, Rat(1, 2))))

C4_Witness ==
    /\ BeamDone /\ ~IsZero(w) /\ ~IsZero(p_max) /\ ~IsZero(p_offset)
    /\ Len(x) = 2 /\ NumEq(x[2], x_half) /\ ~NumEq(x[1], x_half)
    /\ NumEq(beamOut.value[2], NpAdd(p_offset, NpMul(p_max, Rat(1, 2))))

\* The exceptions of curve_fit's input checks.
InputErrors ==
    { "ValueError: ydata must not be empty",
      "TypeError: The number of func parameters must not exceed the number of data points",
      "TypeError: wrong number of positional arguments",
      "ValueError: operands could not be broadcast together",
      "TypeError: Improper input: N must not exceed M" }

C6_FitResultShape ==
    (FitDone /\ fitOut.status = "returned") =>
        /\ Len(fitOut.value) = 2
        /\ fitOut.value[1].ndim = 1
        /\ fitOut.value[1].shape = <<Len(initial_guess)>>
        /\ Len(fitOut.value[1].data) = Len(initial_guess)
        /\ fitOut.value[2].ndim = 2
        /\ fitOut.value[2].shape = <<Len(initial_guess), Len(initial_guess)>>
        /\ Len(fitOut.value[2].data) = Len(initial_guess)
        /\ \A i \in 1..Len(initial_guess) :
              Len(fitOut.value[2].data[i]) = Len(initial_guess)
        /\ model_function = "guassian_beam_erfc" =>
              fitOut.value[2].shape = <<4, 4>>

C6_Witness ==
    /\ FitDone /\ fitOut.status = "returned"
    /\ Len(x_data) = 5 /\ Len(y_data) = 5
    /\ fitOut.value[1].data # initial_guess
    /\ fitOut.value[2].data[1][1] = Rat(1, 100)

\* C7: a call of fit_data invokes the solver exactly once, with the caller's
\* initial_guess as p0; a failed invocation ends the call in failure.
C7_SingleSolverCall ==
    /\ pc \in {"in_solver", "solver_raised", "solver_returned", "fit_done"} =>
          /\ solverCalls = 1
          /\ solverArgs.p0 = initial_guess
    /\ (FitDone /\ solverOut.status = "raised") => fitOut.status = "raised"

C7_Witness ==
    /\ FitDone /\ solverCalls = 1
    /\ solverOut.status = "raised"
    /\ solverOut.error = "RuntimeError: Optimal parameters not found"
    /\ fitOut.status = "raised"

\* C8: what the solver (or the model function it calls) raises reaches the
\* caller of fit_data as it is, with no result, and fit_data raises nothing
\* of its own.
C8_ErrorsPropagateUnchanged ==
    /\ (FitDone /\ solverOut.status = "raised") =>
          /\ fitOut.status = "raised"
          /\ fitOut.error = solverOut.error
          /\ fitOut.value = <<>>
    /\ (FitDone /\ fitOut.status = "raised") => solverOut.status = "raised"
    /\ FitDone => fitOut.status \in {"raised", "returned"}

C8_Witness ==
    /\ FitDone
    /\ solverOut.error = "TypeError: wrong number of positional arguments"
    /\ fitOut.error = "TypeError: wrong number of positional arguments"
    /\ fitOut.value = <<>>

AllInf(m) == \A i, j \in 1..m.shape[1] : m.data[i][j] = Inf

\* Well-formed input with fewer data points than parameters.
TooFewPoints ==
    /\ Len(x_data) = Len(y_data)
    /\ Len(y_data) > 0
    /\ Len(initial_guess) = NParams(model_function)
    /\ Len(y_data) < Len(initial_guess)

=============================================================================
